---- MODULE Spec2Model ----
(***************************************************************************)
(* Model of djchat/server/views.py: ServiceListViewSet.list, the endpoint  *)
(* that lists chat servers filtered by category, member, quantity and id.  *)
(*                                                                         *)
(* Strings are sequences of one-character strings, so that truthiness      *)
(* ("" is falsy), equality with "true" and int() are computed, not assumed.*)
(* A query parameter is an optional string: request.query_params.get(name) *)
(* gives None (present = FALSE) or the string sent.                        *)
(*                                                                         *)
(* A queryset is lazy: it is the description of a query (its WHERE         *)
(* conditions, its annotation, its LIMIT) and is evaluated against the     *)
(* store only by exists() and by the serializer.                           *)
(***************************************************************************)
EXTENDS Integers, Sequences, FiniteSets, TLC

VARIABLES store, classQueryset, views, request, response

vars == <<store, classQueryset, views, request, response>>

\* ---------------------------------------------------------------- bounds

NumServers == 2
NumUsers == 2
NumViews == 2

ServerIds == 1..NumServers
Users == 1..NumUsers
ViewIds == 1..NumViews

\* ---------------------------------------------------------------- strings

\* The characters strings are made of. A character outside ASCII, and the
\* vertical tab, is written as one character named by its code point.

\* The decimal digits int() reads, by value: DecimalDigits[v + 1] are the
\* ASCII digit and the digits of the other scripts that stand for v.
DecimalDigits == <<
    {"0", "U+0660", "U+06F0", "U+07C0", "U+0966", "U+09E6", "U+0A66",
     "U+0AE6", "U+0B66", "U+0BE6", "U+0C66", "U+0CE6", "U+0D66", "U+0DE6",
     "U+0E50", "U+0ED0", "U+0F20", "U+1040", "U+1090", "U+17E0", "U+1810",
     "U+1946", "U+19D0", "U+1A80", "U+1A90", "U+1B50", "U+1BB0", "U+1C40",
     "U+1C50", "U+A620", "U+A8D0", "U+A900", "U+A9D0", "U+A9F0", "U+AA50",
     "U+ABF0", "U+FF10", "U+104A0", "U+10D30", "U+11066", "U+110F0",
     "U+11136", "U+111D0", "U+112F0", "U+11450", "U+114D0", "U+11650",
     "U+116C0", "U+11730", "U+118E0", "U+11950", "U+11C50", "U+11D50",
     "U+11DA0", "U+16A60", "U+16AC0", "U+16B50", "U+1D7CE", "U+1D7D8",
     "U+1D7E2", "U+1D7EC", "U+1D7F6", "U+1E140", "U+1E2F0", "U+1E950",
     "U+1FBF0"},
    {"1", "U+0661", "U+06F1", "U+07C1", "U+0967", "U+09E7", "U+0A67",
     "U+0AE7", "U+0B67", "U+0BE7", "U+0C67", "U+0CE7", "U+0D67", "U+0DE7",
     "U+0E51", "U+0ED1", "U+0F21", "U+1041", "U+1091", "U+17E1", "U+1811",
     "U+1947", "U+19D1", "U+1A81", "U+1A91", "U+1B51", "U+1BB1", "U+1C41",
     "U+1C51", "U+A621", "U+A8D1", "U+A901", "U+A9D1", "U+A9F1", "U+AA51",
     "U+ABF1", "U+FF11", "U+104A1", "U+10D31", "U+11067", "U+110F1",
     "U+11137", "U+111D1", "U+112F1", "U+11451", "U+114D1", "U+11651",
     "U+116C1", "U+11731", "U+118E1", "U+11951", "U+11C51", "U+11D51",
     "U+11DA1", "U+16A61", "U+16AC1", "U+16B51", "U+1D7CF", "U+1D7D9",
     "U+1D7E3", "U+1D7ED", "U+1D7F7", "U+1E141", "U+1E2F1", "U+1E951",
     "U+1FBF1"},
    {"2", "U+0662", "U+06F2", "U+07C2", "U+0968", "U+09E8", "U+0A68",
     "U+0AE8", "U+0B68", "U+0BE8", "U+0C68", "U+0CE8", "U+0D68", "U+0DE8",
     "U+0E52", "U+0ED2", "U+0F22", "U+1042", "U+1092", "U+17E2", "U+1812",
     "U+1948", "U+19D2", "U+1A82", "U+1A92", "U+1B52", "U+1BB2", "U+1C42",
     "U+1C52", "U+A622", "U+A8D2", "U+A902", "U+A9D2", "U+A9F2", "U+AA52",
     "U+ABF2", "U+FF12", "U+104A2", "U+10D32", "U+11068", "U+110F2",
     "U+11138", "U+111D2", "U+112F2", "U+11452", "U+114D2", "U+11652",
     "U+116C2", "U+11732", "U+118E2", "U+11952", "U+11C52", "U+11D52",
     "U+11DA2", "U+16A62", "U+16AC2", "U+16B52", "U+1D7D0", "U+1D7DA",
     "U+1D7E4", "U+1D7EE", "U+1D7F8", "U+1E142", "U+1E2F2", "U+1E952",
     "U+1FBF2"},
    {"3", "U+0663", "U+06F3", "U+07C3", "U+0969", "U+09E9", "U+0A69",
     "U+0AE9", "U+0B69", "U+0BE9", "U+0C69", "U+0CE9", "U+0D69", "U+0DE9",
     "U+0E53", "U+0ED3", "U+0F23", "U+1043", "U+1093", "U+17E3", "U+1813",
     "U+1949", "U+19D3", "U+1A83", "U+1A93", "U+1B53", "U+1BB3", "U+1C43",
     "U+1C53", "U+A623", "U+A8D3", "U+A903", "U+A9D3", "U+A9F3", "U+AA53",
     "U+ABF3", "U+FF13", "U+104A3", "U+10D33", "U+11069", "U+110F3",
     "U+11139", "U+111D3", "U+112F3", "U+11453", "U+114D3", "U+11653",
     "U+116C3", "U+11733", "U+118E3", "U+11953", "U+11C53", "U+11D53",
     "U+11DA3", "U+16A63", "U+16AC3", "U+16B53", "U+1D7D1", "U+1D7DB",
     "U+1D7E5", "U+1D7EF", "U+1D7F9", "U+1E143", "U+1E2F3", "U+1E953",
     "U+1FBF3"},
    {"4", "U+0664", "U+06F4", "U+07C4", "U+096A", "U+09EA", "U+0A6A",
     "U+0AEA", "U+0B6A", "U+0BEA", "U+0C6A", "U+0CEA", "U+0D6A", "U+0DEA",
     "U+0E54", "U+0ED4", "U+0F24", "U+1044", "U+1094", "U+17E4", "U+1814",
     "U+194A", "U+19D4", "U+1A84", "U+1A94", "U+1B54", "U+1BB4", "U+1C44",
     "U+1C54", "U+A624", "U+A8D4", "U+A904", "U+A9D4", "U+A9F4", "U+AA54",
     "U+ABF4", "U+FF14", "U+104A4", "U+10D34", "U+1106A", "U+110F4",
     "U+1113A", "U+111D4", "U+112F4", "U+11454", "U+114D4", "U+11654",
     "U+116C4", "U+11734", "U+118E4", "U+11954", "U+11C54", "U+11D54",
     "U+11DA4", "U+16A64", "U+16AC4", "U+16B54", "U+1D7D2", "U+1D7DC",
     "U+1D7E6", "U+1D7F0", "U+1D7FA", "U+1E144", "U+1E2F4", "U+1E954",
     "U+1FBF4"},
    {"5", "U+0665", "U+06F5", "U+07C5", "U+096B", "U+09EB", "U+0A6B",
     "U+0AEB", "U+0B6B", "U+0BEB", "U+0C6B", "U+0CEB", "U+0D6B", "U+0DEB",
     "U+0E55", "U+0ED5", "U+0F25", "U+1045", "U+1095", "U+17E5", "U+1815",
     "U+194B", "U+19D5", "U+1A85", "U+1A95", "U+1B55", "U+1BB5", "U+1C45",
     "U+1C55", "U+A625", "U+A8D5", "U+A905", "U+A9D5", "U+A9F5", "U+AA55",
     "U+ABF5", "U+FF15", "U+104A5", "U+10D35", "U+1106B", "U+110F5",
     "U+1113B", "U+111D5", "U+112F5", "U+11455", "U+114D5", "U+11655",
     "U+116C5", "U+11735", "U+118E5", "U+11955", "U+11C55", "U+11D55",
     "U+11DA5", "U+16A65", "U+16AC5", "U+16B55", "U+1D7D3", "U+1D7DD",
     "U+1D7E7", "U+1D7F1", "U+1D7FB", "U+1E145", "U+1E2F5", "U+1E955",
     "U+1FBF5"},
    {"6", "U+0666", "U+06F6", "U+07C6", "U+096C", "U+09EC", "U+0A6C",
     "U+0AEC", "U+0B6C", "U+0BEC", "U+0C6C", "U+0CEC", "U+0D6C", "U+0DEC",
     "U+0E56", "U+0ED6", "U+0F26", "U+1046", "U+1096", "U+17E6", "U+1816",
     "U+194C", "U+19D6", "U+1A86", "U+1A96", "U+1B56", "U+1BB6", "U+1C46",
     "U+1C56", "U+A626", "U+A8D6", "U+A906", "U+A9D6", "U+A9F6", "U+AA56",
     "U+ABF6", "U+FF16", "U+104A6", "U+10D36", "U+1106C", "U+110F6",
     "U+1113C", "U+111D6", "U+112F6", "U+11456", "U+114D6", "U+11656",
     "U+116C6", "U+11736", "U+118E6", "U+11956", "U+11C56", "U+11D56",
     "U+11DA6", "U+16A66", "U+16AC6", "U+16B56", "U+1D7D4", "U+1D7DE",
     "U+1D7E8", "U+1D7F2", "U+1D7FC", "U+1E146", "U+1E2F6", "U+1E956",
     "U+1FBF6"},
    {"7", "U+0667", "U+06F7", "U+07C7", "U+096D", "U+09ED", "U+0A6D",
     "U+0AED", "U+0B6D", "U+0BED", "U+0C6D", "U+0CED", "U+0D6D", "U+0DED",
     "U+0E57", "U+0ED7", "U+0F27", "U+1047", "U+1097", "U+17E7", "U+1817",
     "U+194D", "U+19D7", "U+1A87", "U+1A97", "U+1B57", "U+1BB7", "U+1C47",
     "U+1C57", "U+A627", "U+A8D7", "U+A907", "U+A9D7", "U+A9F7", "U+AA57",
     "U+ABF7", "U+FF17", "U+104A7", "U+10D37", "U+1106D", "U+110F7",
     "U+1113D", "U+111D7", "U+112F7", "U+11457", "U+114D7", "U+11657",
     "U+116C7", "U+11737", "U+118E7", "U+11957", "U+11C57", "U+11D57",
     "U+11DA7", "U+16A67", "U+16AC7", "U+16B57", "U+1D7D5", "U+1D7DF",
     "U+1D7E9", "U+1D7F3", "U+1D7FD", "U+1E147", "U+1E2F7", "U+1E957",
     "U+1FBF7"},
    {"8", "U+0668", "U+06F8", "U+07C8", "U+096E", "U+09EE", "U+0A6E",
     "U+0AEE", "U+0B6E", "U+0BEE", "U+0C6E", "U+0CEE", "U+0D6E", "U+0DEE",
     "U+0E58", "U+0ED8", "U+0F28", "U+1048", "U+1098", "U+17E8", "U+1818",
     "U+194E", "U+19D8", "U+1A88", "U+1A98", "U+1B58", "U+1BB8", "U+1C48",
     "U+1C58", "U+A628", "U+A8D8", "U+A908", "U+A9D8", "U+A9F8", "U+AA58",
     "U+ABF8", "U+FF18", "U+104A8", "U+10D38", "U+1106E", "U+110F8",
     "U+1113E", "U+111D8", "U+112F8", "U+11458", "U+114D8", "U+11658",
     "U+116C8", "U+11738", "U+118E8", "U+11958", "U+11C58", "U+11D58",
     "U+11DA8", "U+16A68", "U+16AC8", "U+16B58", "U+1D7D6", "U+1D7E0",
     "U+1D7EA", "U+1D7F4", "U+1D7FE", "U+1E148", "U+1E2F8", "U+1E958",
     "U+1FBF8"},
    {"9", "U+0669", "U+06F9", "U+07C9", "U+096F", "U+09EF", "U+0A6F",
     "U+0AEF", "U+0B6F", "U+0BEF", "U+0C6F", "U+0CEF", "U+0D6F", "U+0DEF",
     "U+0E59", "U+0ED9", "U+0F29", "U+1049", "U+1099", "U+17E9", "U+1819",
     "U+194F", "U+19D9", "U+1A89", "U+1A99", "U+1B59", "U+1BB9", "U+1C49",
     "U+1C59", "U+A629", "U+A8D9", "U+A909", "U+A9D9", "U+A9F9", "U+AA59",
     "U+ABF9", "U+FF19", "U+104A9", "U+10D39", "U+1106F", "U+110F9",
     "U+1113F", "U+111D9", "U+112F9", "U+11459", "U+114D9", "U+11659",
     "U+116C9", "U+11739", "U+118E9", "U+11959", "U+11C59", "U+11D59",
     "U+11DA9", "U+16A69", "U+16AC9", "U+16B59", "U+1D7D7", "U+1D7E1",
     "U+1D7EB", "U+1D7F5", "U+1D7FF", "U+1E149", "U+1E2F9", "U+1E959",
     "U+1FBF9"} >>

Digits == UNION {DecimalDigits[i] : i \in 1..10}

\* The characters int() strips from both ends of its argument.
Whitespace ==
    {"\t", "\n", "U+000B", "\f", "\r", " ", "U+0085", "U+00A0", "U+1680",
     "U+2000", "U+2001", "U+2002", "U+2003", "U+2004", "U+2005", "U+2006",
     "U+2007", "U+2008", "U+2009", "U+200A", "U+2028", "U+2029", "U+202F",
     "U+205F", "U+3000"}

\* The most digits int() converts; a longer string is a ValueError.
MaxStrDigits == 4300

DigitVal(c) == CHOOSE v \in 0..9 : c \in DecimalDigits[v + 1]

RECURSIVE DigitsVal(_)
DigitsVal(s) ==
    IF s = <<>> THEN 0
    ELSE 10 * DigitsVal(SubSeq(s, 1, Len(s) - 1)) + DigitVal(s[Len(s)])

\* s without its leading and trailing whitespace.
Strip(s) ==
    LET n == Len(s)
        first == CHOOSE i \in 1..n :
                     s[i] \notin Whitespace /\ \A j \in 1..(i - 1) : s[j] \in Whitespace
        last == CHOOSE i \in 1..n :
                    s[i] \notin Whitespace /\ \A j \in (i + 1)..n : s[j] \in Whitespace
    IN  IF \A i \in 1..n : s[i] \in Whitespace THEN <<>>
        ELSE SubSeq(s, first, last)

\* Digits, with single underscores allowed between two digits.
DigitGroups(s) ==
    /\ s # <<>>
    /\ s[1] \in Digits /\ s[Len(s)] \in Digits
    /\ \A i \in 1..Len(s) : s[i] = "_" \/ s[i] \in Digits
    /\ \A i \in 1..(Len(s) - 1) : ~(s[i] = "_" /\ s[i + 1] = "_")

HasSign(s) == s # <<>> /\ s[1] \in {"-", "+"}

\* The digits and underscores of a stripped string, after its sign.
Unsigned(s) == LET stripped == Strip(s) IN IF HasSign(stripped) THEN Tail(stripped) ELSE stripped

\* The digits of s, without its whitespace, sign and underscores.
DigitsOf(s) == SelectSeq(Unsigned(s), LAMBDA c : c \in Digits)

\* int(s) returns: s is, between optional whitespace, an optional sign
\* followed by digits with single underscores between them, and it has
\* no more than MaxStrDigits digits, leading zeros counted.
IntParses(s) ==
    LET u == Unsigned(s)
    IN  /\ DigitGroups(u)
        /\ Len(SelectSeq(u, LAMBDA c : c \in Digits)) <= MaxStrDigits

\* int(s) for a string on which IntParses holds.
IntValue(s) ==
    LET stripped == Strip(s)
        magnitude == DigitsVal(DigitsOf(s))
    IN  IF HasSign(stripped) /\ stripped[1] = "-" THEN 0 - magnitude ELSE magnitude

STrue == <<"t", "r", "u", "e">>
STrueCapital == <<"T", "r", "u", "e">>

\* ---------------------------------------------------------------- optional values

None == [present |-> FALSE, value |-> <<>>]
Some(v) == [present |-> TRUE, value |-> v]

\* An optional integer (a user id, a LIMIT).
NoneInt == [present |-> FALSE, value |-> 0]

\* Python truthiness of an optional string: None and "" are falsy.
Truthy(p) == p.present /\ p.value # <<>>

\* p == "true"
IsTrue(p) == p.present /\ p.value = STrue

\* ---------------------------------------------------------------- the store

CategoryNames == {<<"a">>, <<"b">>}

\* A Server row: its category's name and its members (many-to-many).
\* The row's id is its key in the store.
ServerRows == [category : CategoryNames, member : SUBSET Users]

\* The stores explored: every assignment of member sets; the categories
\* alternate (server 1 in "a", server 2 in "b", server 3 in "a", ...).
CategoryOf(id) == IF id % 2 = 1 THEN <<"a">> ELSE <<"b">>

Stores == {st \in [ServerIds -> ServerRows] : \A id \in ServerIds : st[id].category = CategoryOf(id)}

\* ---------------------------------------------------------------- querysets

\* Server.objects.all(): no condition, no annotation, no limit.
AllServers ==
    [where_category |-> {}, where_member |-> {}, where_id |-> {},
     member_join |-> NoneInt, annotated |-> FALSE, count_join |-> NoneInt,
     high_mark |-> NoneInt]

Returned(q) == [exc |-> "none", q |-> q]
Raised(e, q) == [exc |-> e, q |-> q]

IsSliced(q) == q.high_mark.present

\* QuerySet.filter refuses a sliced queryset before it looks at the lookup.
FilterGuard(q, filtered) ==
    IF IsSliced(q) THEN Raised("TypeError", q) ELSE Returned(filtered)

\* Variant: the category lookup keeps every row.
FilterCategoryNoop(q, name) == FilterGuard(q, q)

\* queryset.filter(category__name=name)
FilterCategory(q, name) ==
    FilterGuard(q, [q EXCEPT !.where_category = @ \cup {name}])

\* queryset.filter(member=user_id): an inner join on the membership rows of
\* that user; the first such join is the one later lookups on "member" reuse.
FilterMember(q, user_id) ==
    FilterGuard(q, [q EXCEPT !.where_member = @ \cup {user_id},
                             !.member_join = IF @.present THEN @ ELSE [present |-> TRUE, value |-> user_id]])

\* queryset.filter(id=raw): the id field converts raw with int(), ValueError
\* when it cannot.
FilterId(q, raw) ==
    IF IsSliced(q) THEN Raised("TypeError", q)
    ELSE IF ~IntParses(raw) THEN Raised("ValueError", q)
    ELSE Returned([q EXCEPT !.where_id = @ \cup {IntValue(raw)}])

\* queryset.annotate(num_members=Count("member")): the aggregate is computed
\* over the join on "member" the query already has, when it has one.
AnnotateNumMembers(q) ==
    [q EXCEPT !.annotated = TRUE, !.count_join = q.member_join]

Min(a, b) == IF a <= b THEN a ELSE b

\* Variant: the slice keeps one row too many.
SliceToOffByOne(q, n) ==
    IF n < 0 THEN Raised("ValueError", q)
    ELSE Returned([q EXCEPT !.high_mark = [present |-> TRUE, value |-> n + 1]])

\* queryset[:n]
SliceTo(q, n) ==
    IF n < 0 THEN Raised("ValueError", q)
    ELSE Returned([q EXCEPT !.high_mark =
              [present |-> TRUE, value |-> IF @.present THEN Min(@.value, n) ELSE n]])

\* The rows of the store a query selects, before its LIMIT.
Matches(q, st, id) ==
    /\ \A c \in q.where_category : st[id].category = c
    /\ \A u \in q.where_member : u \in st[id].member
    /\ \A k \in q.where_id : id = k

\* COUNT over the membership rows of the join the annotation uses.
CountMember(q, st, id) ==
    IF q.count_join.present
    THEN Cardinality({m \in st[id].member : m = q.count_join.value})
    ELSE Cardinality(st[id].member)

ResultRow(q, st, id) ==
    [id |-> id, category |-> st[id].category,
     num_members |-> IF q.annotated
                     THEN [present |-> TRUE, value |-> CountMember(q, st, id)]
                     ELSE NoneInt]

Prefix(s, n) == SubSeq(s, 1, Min(n, Len(s)))

\* The orders in which the database may yield the rows of the table: the
\* query has no ORDER BY, so any order.
RowOrders == {o \in [1..NumServers -> ServerIds] : \A i, j \in 1..NumServers : o[i] = o[j] => i = j}

\* Evaluation of a queryset when the database yields the rows in row_order:
\* the matching rows in that order, cut to LIMIT.
Evaluate(q, st, row_order) ==
    LET ids == SelectSeq(row_order, LAMBDA i : Matches(q, st, i))
        cut == IF q.high_mark.present THEN Prefix(ids, q.high_mark.value) ELSE ids
    IN  [k \in 1..Len(cut) |-> ResultRow(q, st, cut[k])]

\* queryset.exists(): some row is selected, in whatever order they come.
Exists(q, st) ==
    /\ \E id \in ServerIds : Matches(q, st, id)
    /\ q.high_mark.present => q.high_mark.value > 0

\* ---------------------------------------------------------------- requests, responses

\* request.user: NoneInt is the anonymous user (is_authenticated = False),
\* otherwise the id of the authenticated user.
IsAuthenticated(req) == req.user.present

NoDetail == [reason |-> "", id |-> <<>>]

\* raised_at names the statement of list an exception left from; row_order is
\* the order the database yielded the rows in when the queryset was serialized.
NoResponse ==
    [kind |-> "none", detail |-> NoDetail, data |-> <<>>, raised_at |-> "",
     row_order |-> <<>>]

\* An exception leaving list: AuthenticationFailed and ValidationError are the
\* framework's API exceptions; ValueError and TypeError are not handled.
ErrorResponse(kind, detail, at) ==
    [kind |-> kind, detail |-> detail, data |-> <<>>, raised_at |-> at,
     row_order |-> <<>>]

\* ServerSerializer(queryset, many=True, context={"num_members": flag}).data:
\* one transfer object per row, in order, with num_members only when asked.
Serialize(rows, flag) ==
    [k \in 1..Len(rows) |->
        [id |-> rows[k].id, category |-> rows[k].category,
         num_members |-> IF flag THEN rows[k].num_members ELSE NoneInt]]

\* ---------------------------------------------------------------- the view

NoQueryset == [present |-> FALSE, value |-> AllServers]

NoRequest ==
    [user |-> NoneInt, category |-> None, qty |-> None, by_user |-> None,
     by_serverid |-> None, with_num_members |-> None]

IdleView == [pc |-> "idle", queryset |-> NoQueryset, req |-> NoRequest, resp |-> NoResponse]

\* The view instance made for one request: nothing in its own __dict__ yet.
NewView(req) == [IdleView EXCEPT !.pc = "category", !.req = req]

\* self.queryset read: the instance's attribute when it has one, else the class's.
GetQueryset(s) ==
    IF s.view.queryset.present THEN s.view.queryset.value ELSE s.cls

\* Variant: the assignment rebinds the class attribute, which every view
\* instance without an attribute of its own reads.
SetQuerysetOnClass(s, q) == [s EXCEPT !.cls = q]

\* self.queryset = q: binds the attribute on the instance; the class attribute
\* ServiceListViewSet.queryset is left as it is.
SetQueryset(s, q) ==
    [s EXCEPT !.view.queryset = [present |-> TRUE, value |-> q]]

Goto(s, pc) == [s EXCEPT !.view.pc = pc]

Raise(s, kind, detail) ==
    [s EXCEPT !.view.pc = "done", !.view.resp = ErrorResponse(kind, detail, s.view.pc)]

\* if category: self.queryset = self.queryset.filter(category__name=category)
StepCategory(s, st) ==
    IF s.view.pc # "category" THEN s
    ELSE IF Truthy(s.view.req.category)
    THEN LET r == FilterCategory(GetQueryset(s), s.view.req.category.value)
         IN  IF r.exc # "none" THEN Raise(s, r.exc, NoDetail)
             ELSE Goto(SetQueryset(s, r.q), "by_user")
    ELSE Goto(s, "by_user")

\* Variant: the else branch raises only when by_user was asked for.
StepByUserOptional(s, st) ==
    IF s.view.pc # "by_user" THEN s
    ELSE IF IsTrue(s.view.req.by_user)
    THEN IF IsAuthenticated(s.view.req)
         THEN LET r == FilterMember(GetQueryset(s), s.view.req.user.value)
              IN  IF r.exc # "none" THEN Raise(s, r.exc, NoDetail)
                  ELSE Goto(SetQueryset(s, r.q), "with_num_members")
         ELSE Raise(s, "AuthenticationFailed", NoDetail)
    ELSE Goto(s, "with_num_members")

\* Variant: the condition tests authentication only, not by_user.
StepByUserAuthOnly(s, st) ==
    IF s.view.pc # "by_user" THEN s
    ELSE IF IsAuthenticated(s.view.req)
    THEN LET r == FilterMember(GetQueryset(s), s.view.req.user.value)
         IN  IF r.exc # "none" THEN Raise(s, r.exc, NoDetail)
             ELSE Goto(SetQueryset(s, r.q), "with_num_members")
    ELSE Raise(s, "AuthenticationFailed", NoDetail)

\* if by_user and request.user.is_authenticated: filter(member=user_id)
\* else: raise AuthenticationFailed()
StepByUser(s, st) ==
    IF s.view.pc # "by_user" THEN s
    ELSE IF IsTrue(s.view.req.by_user) /\ IsAuthenticated(s.view.req)
    THEN LET r == FilterMember(GetQueryset(s), s.view.req.user.value)
         IN  IF r.exc # "none" THEN Raise(s, r.exc, NoDetail)
             ELSE Goto(SetQueryset(s, r.q), "with_num_members")
    ELSE Raise(s, "AuthenticationFailed", NoDetail)

\* if with_num_members: self.queryset = self.queryset.annotate(num_members=Count("member"))
StepNumMembers(s, st) ==
    IF s.view.pc # "with_num_members" THEN s
    ELSE IF IsTrue(s.view.req.with_num_members)
    THEN Goto(SetQueryset(s, AnnotateNumMembers(GetQueryset(s))), "qty")
    ELSE Goto(s, "qty")

\* if qty: self.queryset = self.queryset[: int(qty)]
StepQty(s, st) ==
    IF s.view.pc # "qty" THEN s
    ELSE IF Truthy(s.view.req.qty)
    THEN IF ~IntParses(s.view.req.qty.value) THEN Raise(s, "ValueError", NoDetail)
         ELSE LET r == SliceTo(GetQueryset(s), IntValue(s.view.req.qty.value))
              IN  IF r.exc # "none" THEN Raise(s, r.exc, NoDetail)
                  ELSE Goto(SetQueryset(s, r.q), "by_serverid")
    ELSE Goto(s, "by_serverid")

\* if by_serverid: authentication check, then filter(id=by_serverid) and
\* exists() inside try ... except ValueError.
StepByServerid(s, st) ==
    IF s.view.pc # "by_serverid" THEN s
    ELSE IF Truthy(s.view.req.by_serverid)
    THEN IF ~IsAuthenticated(s.view.req) THEN Raise(s, "AuthenticationFailed", NoDetail)
         ELSE LET r == FilterId(GetQueryset(s), s.view.req.by_serverid.value)
              IN  IF r.exc = "ValueError"
                  THEN Raise(s, "ValidationError",
                             [reason |-> "Server value error", id |-> <<>>])
                  ELSE IF r.exc # "none" THEN Raise(s, r.exc, NoDetail)
                  ELSE IF ~Exists(r.q, st)
                  THEN Raise(SetQueryset(s, r.q), "ValidationError",
                             [reason |-> "Server with id {by_serverid} not found",
                              id |-> s.view.req.by_serverid.value])
                  ELSE Goto(SetQueryset(s, r.q), "serialize")
    ELSE Goto(s, "serialize")

\* serializer = ServerSerializer(self.queryset, ...); return Response(serializer.data)
StepSerialize(s, st, row_order) ==
    IF s.view.pc # "serialize" THEN s
    ELSE [s EXCEPT !.view.pc = "done",
                   !.view.resp = [kind |-> "ok", detail |-> NoDetail, raised_at |-> "",
                                  row_order |-> row_order,
                                  data |-> Serialize(Evaluate(GetQueryset(s), st, row_order),
                                                     IsTrue(s.view.req.with_num_members))]]

\* The outcomes of the last statement: one for each order the rows may come in.
SerializeOutcomes(s, st) ==
    IF s.view.pc # "serialize" THEN {s}
    ELSE {StepSerialize(s, st, o) : o \in RowOrders}

\* ServiceListViewSet.list, from its first statement to its return or raise:
\* the outcomes it can have.
RunList(s, st) ==
    LET s1 == StepCategory(s, st)
        s2 == StepByUser(s1, st)
        s3 == StepNumMembers(s2, st)
        s4 == StepQty(s3, st)
        s5 == StepByServerid(s4, st)
    IN  SerializeOutcomes(s5, st)

\* ---------------------------------------------------------------- inputs

Callers == {NoneInt} \cup {[present |-> TRUE, value |-> u] : u \in Users}

CategoryInputs == {None, Some(<<>>), Some(<<"a">>), Some(<<"b">>)}

QtyInputs ==
    {None, Some(<<>>), Some(<<"0">>), Some(<<"1">>), Some(<<"U+0662">>),
     Some(<<"x">>), Some(<<"-", "1">>), Some(<<"\r", "1">>),
     Some(<<"1", "_", "0">>)}

ByUserInputs == {None, Some(STrue), Some(STrueCapital)}

ByServeridInputs ==
    {None, Some(<<>>), Some(<<"1">>), Some(<<"3">>), Some(<<"x">>),
     Some(<<"1", "U+00A0">>)}

WithNumMembersInputs == {None, Some(STrue)}

\* One digit more than int() converts.
TooManyDigits == [i \in 1..(MaxStrDigits + 1) |-> "1"]

\* A member's requests whose qty, or whose by_serverid, has too many digits.
RequestsTooLong ==
    {[user |-> [present |-> TRUE, value |-> 1], category |-> None,
      qty |-> Some(TooManyDigits), by_user |-> Some(STrue),
      by_serverid |-> None, with_num_members |-> None],
     [user |-> [present |-> TRUE, value |-> 1], category |-> None,
      qty |-> None, by_user |-> Some(STrue),
      by_serverid |-> Some(TooManyDigits), with_num_members |-> None]}

Requests ==
    [user : Callers, category : CategoryInputs, qty : QtyInputs,
     by_user : ByUserInputs, by_serverid : ByServeridInputs,
     with_num_members : WithNumMembersInputs]
    \cup RequestsTooLong

\* ---------------------------------------------------------------- one request at a time

Init ==
    /\ store \in Stores
    /\ classQueryset = AllServers
    /\ views = [v \in ViewIds |-> IdleView]
    /\ request = NoRequest
    /\ response = NoResponse

\* GET handled to completion by a view instance made for it.
List(req) ==
    \E out \in RunList([view |-> NewView(req), cls |-> classQueryset], store) :
        /\ request' = req
        /\ response' = out.view.resp
        /\ classQueryset' = out.cls
        /\ UNCHANGED <<store, views>>

\* The response leaves; the worker takes the next request.
Reply ==
    /\ response.kind # "none"
    /\ request' = NoRequest
    /\ response' = NoResponse
    /\ UNCHANGED <<store, classQueryset, views>>

\* A request arrives at a worker that is waiting for one.
Receive == response.kind = "none" /\ \E req \in Requests : List(req)

Next == Receive \/ Reply

Spec == Init /\ [][Next]_vars

\* ---------------------------------------------------------------- concurrent requests

\* Each request in flight has a view instance of its own; the statements of
\* list run one at a time and those of different requests interleave.

Req(user, category, qty, by_user, by_serverid, with_num_members) ==
    [user |-> user, category |-> category, qty |-> qty, by_user |-> by_user,
     by_serverid |-> by_serverid, with_num_members |-> with_num_members]

User(u) == [present |-> TRUE, value |-> u]

ConcRequests ==
    {Req(User(1), Some(<<"a">>), Some(<<"1">>), Some(STrue), None, Some(STrue)),
     Req(User(1), None, None, Some(STrue), Some(<<"1">>), None),
     Req(User(2), None, None, Some(STrue), None, None),
     Req(NoneInt, None, None, None, Some(<<"1">>), None)}

\* Stores in which user 2 is a member of every server and user 1 of some.
ConcStores == {st \in Stores : \A id \in ServerIds : st[id].member \in {Users, Users \ {1}}}

InitConc ==
    /\ store \in ConcStores
    /\ classQueryset = AllServers
    /\ views = [v \in ViewIds |-> IdleView]
    /\ request = NoRequest
    /\ response = NoResponse

\* as_view: a new instance of the view class for the request.
Dispatch(v) ==
    /\ views[v].pc = "idle"
    /\ \E req \in ConcRequests : views' = [views EXCEPT ![v] = NewView(req)]
    /\ UNCHANGED <<store, classQueryset, request, response>>

Frame(v) == [view |-> views[v], cls |-> classQueryset]

Commit(v, out) ==
    /\ views' = [views EXCEPT ![v] = out.view]
    /\ classQueryset' = out.cls
    /\ UNCHANGED <<store, request, response>>

DoCategory(v) == views[v].pc = "category" /\ Commit(v, StepCategory(Frame(v), store))

DoByUser(v) == views[v].pc = "by_user" /\ Commit(v, StepByUser(Frame(v), store))

DoNumMembers(v) ==
    views[v].pc = "with_num_members" /\ Commit(v, StepNumMembers(Frame(v), store))

DoQty(v) == views[v].pc = "qty" /\ Commit(v, StepQty(Frame(v), store))

DoByServerid(v) == views[v].pc = "by_serverid" /\ Commit(v, StepByServerid(Frame(v), store))

DoSerialize(v) ==
    /\ views[v].pc = "serialize"
    /\ \E out \in SerializeOutcomes(Frame(v), store) : Commit(v, out)

\* The response is sent and the view instance dropped.
Respond(v) ==
    /\ views[v].pc = "done"
    /\ views' = [views EXCEPT ![v] = IdleView]
    /\ UNCHANGED <<store, classQueryset, request, response>>

NextConc ==
    \E v \in ViewIds :
        \/ Dispatch(v)
        \/ DoCategory(v)
        \/ DoByUser(v)
        \/ DoNumMembers(v)
        \/ DoQty(v)
        \/ DoByServerid(v)
        \/ DoSerialize(v)
        \/ Respond(v)

SpecConc == InitConc /\ [][NextConc]_vars

\* ---------------------------------------------------------------- properties

Handled == response.kind # "none"

Succeeded == response.kind = "ok"

\* The request got past the by_user statement.
PassedByUser == IsTrue(request.by_user) /\ IsAuthenticated(request)

\* qty is a string int() accepts, with a value of at least 0.
QtyIsCount ==
    /\ Truthy(request.qty)
    /\ IntParses(request.qty.value)
    /\ IntValue(request.qty.value) >= 0

IdIsInt == Truthy(request.by_serverid) /\ IntParses(request.by_serverid.value)

Ids(data) == [k \in 1..Len(data) |-> data[k].id]

\* The stored servers that have the caller as a member and, when cat is
\* given, that category name: stated on the store alone.
IsMemberServer(cat, i) ==
    /\ request.user.value \in store[i].member
    /\ cat.present => store[i].category = cat.value

MemberServerSet(cat) == {i \in ServerIds : IsMemberServer(cat, i)}

\* The same servers, in the order the database yielded the rows for the response.
MemberServers(cat) ==
    SelectSeq(response.row_order, LAMBDA i : IsMemberServer(cat, i))

\* The category filter the code applies: none for an empty string.
AppliedCategory == IF Truthy(request.category) THEN request.category ELSE None

NotFound(id) ==
    /\ response.kind = "ValidationError"
    /\ response.detail.reason = "Server with id {by_serverid} not found"
    /\ response.detail.id = id
    /\ response.data = <<>>

\* C1: an unauthenticated request always ends in an authentication failure
\* with no records, also when its qty or by_serverid is malformed.
C1_UnauthenticatedFails ==
    (Handled /\ ~IsAuthenticated(request))
        => (response.kind = "AuthenticationFailed" /\ response.data = <<>>)

C1_Witness ==
    /\ Handled /\ ~IsAuthenticated(request)
    /\ Truthy(request.qty) /\ ~IntParses(request.qty.value)
    /\ Truthy(request.by_serverid) /\ ~IntParses(request.by_serverid.value)
    /\ ~IsTrue(request.by_user)
    /\ response.kind = "AuthenticationFailed"

\* C2: an authenticated request without by_user=true is not refused for
\* authentication: the membership filter is skipped and the later steps run.
C2_ByUserOptional ==
    (Handled /\ IsAuthenticated(request) /\ ~IsTrue(request.by_user))
        => response.kind # "AuthenticationFailed"

\* C3: with with_num_members=true every returned server carries the number of
\* its members in the store, and the annotation drops no record.
C3_NumMembersIsTotal ==
    (Succeeded /\ IsTrue(request.with_num_members))
        => /\ \A k \in 1..Len(response.data) :
                /\ response.data[k].num_members.present
                /\ response.data[k].num_members.value
                       = Cardinality(store[response.data[k].id].member)
           /\ (~Truthy(request.qty) /\ ~Truthy(request.by_serverid))
                => Ids(response.data) = MemberServers(AppliedCategory)

\* C4: past the authentication step, a qty that int() rejects ends in a
\* validation failure with no records.
C4_BadQtyIsValidationError ==
    (Handled /\ PassedByUser /\ Truthy(request.qty) /\ ~IntParses(request.qty.value))
        => (response.kind = "ValidationError" /\ response.data = <<>>)

\* C5: a successful request with qty=N, N >= 0, returns the first min(N, size)
\* records of what the earlier steps selected, in the order the database
\* yields them.
C5_QtyIsPrefix ==
    (Succeeded /\ QtyIsCount)
        => /\ Ids(response.data)
                = Prefix(MemberServers(AppliedCategory), IntValue(request.qty.value))
           /\ Len(response.data) <= IntValue(request.qty.value)

C5_Witness ==
    /\ Succeeded /\ QtyIsCount
    /\ IntValue(request.qty.value) = 1
    /\ Len(MemberServers(AppliedCategory)) >= 2
    /\ Len(response.data) = 1

\* C6: an authenticated request reaching the by_serverid step with an id no
\* record of the working set has (here: no record the earlier filters select,
\* truncated or not) fails with the validation failure naming the id; a
\* by_serverid request never succeeds with an empty list.
C6_MissingIdIsNamed ==
    /\ (Handled /\ PassedByUser /\ (Truthy(request.qty) => QtyIsCount) /\ IdIsInt
            /\ IntValue(request.by_serverid.value) \notin MemberServerSet(AppliedCategory))
          => NotFound(request.by_serverid.value)
    /\ (Succeeded /\ Truthy(request.by_serverid)) => response.data # <<>>

\* C7 as stated: a category that is present, the empty string included, is
\* matched exactly by every returned record.
C7_PresentCategoryMatches ==
    Succeeded
        => /\ request.category.present
                => \A k \in 1..Len(response.data) :
                       response.data[k].category = request.category.value
           /\ IsTrue(request.by_user)
                => \A k \in 1..Len(response.data) :
                       request.user.value \in store[response.data[k].id].member
           /\ (~request.qty.present /\ ~request.by_serverid.present)
                => Ids(response.data) = MemberServers(request.category)

\* C7 amended: a non-empty category is matched exactly by every returned
\* record, a by_user caller is a member of each, and without a non-empty qty
\* or by_serverid no stored record meeting the applied filters is dropped.
C7_AppliedFiltersHold ==
    Succeeded
        => /\ Truthy(request.category)
                => \A k \in 1..Len(response.data) :
                       /\ response.data[k].category = request.category.value
                       /\ store[response.data[k].id].category = request.category.value
           /\ IsTrue(request.by_user)
                => \A k \in 1..Len(response.data) :
                       request.user.value \in store[response.data[k].id].member
           /\ (~Truthy(request.qty) /\ ~Truthy(request.by_serverid))
                => Ids(response.data) = MemberServers(AppliedCategory)

C7_Witness ==
    /\ Succeeded /\ Truthy(request.category)
    /\ ~request.qty.present /\ ~request.by_serverid.present
    /\ response.data # <<>>
    /\ \E i \in ServerIds : /\ request.user.value \in store[i].member
                             /\ store[i].category # request.category.value

\* C9: with qty=N and by_serverid=I the id filter acts on the truncated set:
\* the request succeeds with the records among the first N whose id is I, or
\* fails with the validation failure naming I; nothing else happens.
C9_IdFilterAfterQty ==
    (Handled /\ PassedByUser /\ QtyIsCount /\ IdIsInt)
        => \/ /\ Succeeded
              /\ response.data # <<>>
              /\ Ids(response.data)
                    = SelectSeq(Prefix(MemberServers(AppliedCategory),
                                       IntValue(request.qty.value)),
                                LAMBDA i : i = IntValue(request.by_serverid.value))
           \/ NotFound(request.by_serverid.value)

\* C10: only an authenticated request with by_user=true succeeds, so every
\* returned record has the caller as a member, and an authentication failure
\* is never raised by the check inside the by_serverid step.
C10_SuccessNeedsByUser ==
    /\ Succeeded
          => /\ PassedByUser
             /\ \A k \in 1..Len(response.data) :
                    request.user.value \in store[response.data[k].id].member
    /\ response.kind = "AuthenticationFailed" => response.raised_at = "by_user"

C10_Witness ==
    /\ Succeeded /\ Truthy(request.by_serverid)
    /\ response.data # <<>>

\* C8: requests are independent. Whatever the interleaving, a finished
\* request's outcome is the one its own parameters, caller and the store give
\* to a request handled alone; the class's queryset and the store never change.
C8_RequestsIndependent ==
    [][/\ store' = store
       /\ classQueryset' = AllServers
       /\ \A v \in ViewIds :
             (views'[v] # views[v] /\ views'[v].pc = "done")
                => \E out \in RunList([view |-> NewView(views'[v].req), cls |-> AllServers],
                                      store') :
                       views'[v].resp = out.view.resp]_vars

C8_Witness ==
    \E v, w \in ViewIds :
        /\ v # w
        /\ views[v].pc = "done" /\ views[v].resp.kind = "ok"
        /\ views[v].queryset.present
        /\ views[w].pc \notin {"idle", "done"}
        /\ views[w].queryset.present
        /\ views[w].queryset.value # views[v].queryset.value

====
